---------------------------- MODULE Spec2Model ----------------------------
(***************************************************************************)
(* zonefmt (src/main.go): formatZone reads a zone file line by line,       *)
(* tracks $ORIGIN / $TTL, parses every other line with parseRecord, sorts  *)
(* the records with records.Less and renders them column aligned.          *)
(*                                                                         *)
(* Text is modelled as a sequence of one-character strings, so that the    *)
(* regular expression, the name qualification, the quoting and the         *)
(* rendering are computed character by character as the code does.         *)
(***************************************************************************)
EXTENDS Integers, Sequences, FiniteSets, TLC

(***************************************************************************)
(* Bounds of the model.                                                    *)
(***************************************************************************)
\* lines the scanner delivers before end of file
MaxLines == 3

(***************************************************************************)
(* Program constants.                                                      *)
(***************************************************************************)
\* "sci, scj uint64 = 100, 100": score of a type the table does not hold
DefaultScore == 100
\* the 5 of "%5d" and of "%-5s" in the format string
FieldWidth == 5
\* digits of math.MaxInt64, the largest value strconv.ParseInt(s, 10, 64) takes
MaxInt64Digits == 19

(***************************************************************************)
(* Characters and strings.                                                 *)
(***************************************************************************)
\* The characters of the model in byte order; Go compares strings bytewise.
Ascii ==
  << "\t", " ", "\"", "$", "-", ".",
     "0", "1", "2", "3", "4", "5", "6", "7", "8", "9", "@",
     "A", "C", "D", "E", "G", "I", "K", "L", "M", "N", "O", "R", "S", "T", "U",
     "X", "Y",
     "\\",
     "b", "e", "h", "k", "m", "n", "q", "s", "t", "w", "x", "y" >>

Ord(c) == CHOOSE i \in 1..Len(Ascii) : Ascii[i] = c

Digits == <<"0", "1", "2", "3", "4", "5", "6", "7", "8", "9">>

IsDigit(c) == \E i \in 1..10 : Digits[i] = c

DigitVal(c) == (CHOOSE i \in 1..10 : Digits[i] = c) - 1

\* the class \s of the regular expression (of the characters modelled)
IsSpace(c) == c \in {" ", "\t"}

\* s[i:] of Go, with i counted from 1
From(s, i) == SubSeq(s, i, Len(s))

\* a < b on Go strings: bytewise lexicographic
RECURSIVE StrLess(_, _)
StrLess(a, b) ==
  IF b = <<>> THEN FALSE
  ELSE IF a = <<>> THEN TRUE
  ELSE IF Head(a) # Head(b) THEN Ord(Head(a)) < Ord(Head(b))
  ELSE StrLess(Tail(a), Tail(b))

\* strings.HasSuffix(s, ".")
HasDotSuffix(s) == Len(s) > 0 /\ s[Len(s)] = "."

\* strings.TrimLeft(s, "."): every leading dot goes
RECURSIVE TrimLeftDots(_)
TrimLeftDots(s) ==
  IF s # <<>> /\ Head(s) = "." THEN TrimLeftDots(Tail(s)) ELSE s

\* strings.Join([]string{a, b}, ".")
JoinDot(a, b) == a \o <<".">> \o b

\* n spaces
Spaces(n) == [i \in 1..n |-> " "]

\* strconv.Itoa / the digits of %d
RECURSIVE NatDigits(_)
NatDigits(n) ==
  IF n < 10 THEN <<Digits[n + 1]>>
  ELSE NatDigits(n \div 10) \o <<Digits[(n % 10) + 1]>>

Itoa(n) == IF n < 0 THEN <<"-">> \o NatDigits(0 - n) ELSE NatDigits(n)

\* "%-Ws": the string, then spaces up to width w; never cut
PadRight(s, w) == IF Len(s) >= w THEN s ELSE s \o Spaces(w - Len(s))

\* "%Wd" on the digits: spaces up to width w, then the digits; never cut
PadLeft(s, w) == IF Len(s) >= w THEN s ELSE Spaces(w - Len(s)) \o s


Min(S) == CHOOSE x \in S : \A y \in S : x <= y

(***************************************************************************)
(* strconv.ParseInt(s, 10, 64) on a string of digits (line 187).           *)
(***************************************************************************)
RECURSIVE StripZeros(_)
StripZeros(s) ==
  IF Len(s) > 1 /\ Head(s) = "0" THEN StripZeros(Tail(s)) ELSE s

\* the digits of math.MaxInt64 = 9223372036854775807
MaxInt64 ==
  << "9", "2", "2", "3", "3", "7", "2", "0", "3", "6",
     "8", "5", "4", "7", "7", "5", "8", "0", "7" >>

RECURSIVE DigitsVal(_)
DigitsVal(s) ==
  IF s = <<>> THEN 0 ELSE 10 * DigitsVal(SubSeq(s, 1, Len(s) - 1)) + DigitVal(s[Len(s)])

\* A value past MaxInt64 is a range error.  The value itself is computed for
\* the tokens the model draws, which stay far below the word size.
ParseInt(s) ==
  LET d == StripZeros(s) IN
  IF Len(d) > MaxInt64Digits \/ (Len(d) = MaxInt64Digits /\ StrLess(MaxInt64, d))
  THEN [ok |-> FALSE, val |-> 0]
  ELSE [ok |-> TRUE, val |-> DigitsVal(d)]

(***************************************************************************)
(* time.ParseDuration followed by int(t.Seconds()) (lines 135-139).        *)
(* The duration is kept in milliseconds; the units ns, us and fractions    *)
(* ("1.5h") are not part of the model and no argument drawn uses them.     *)
(***************************************************************************)
UnitMs(u) ==
  CASE u = <<"m", "s">> -> 1
    [] u = <<"s">> -> 1000
    [] u = <<"m">> -> 60000
    [] u = <<"h">> -> 3600000
    [] OTHER -> 0

\* index of the first character of s at or after i that is (not) a digit
DigitsEnd(s, i) ==
  LET S == {j \in i..Len(s) : ~IsDigit(s[j])} IN IF S = {} THEN Len(s) + 1 ELSE Min(S)

UnitEnd(s, i) ==
  LET S == {j \in i..Len(s) : IsDigit(s[j]) \/ s[j] = "."} IN
  IF S = {} THEN Len(s) + 1 ELSE Min(S)

\* the loop "for s != ''": a number, then a unit, summed
RECURSIVE DurationGroups(_)
DurationGroups(s) ==
  IF s = <<>> THEN [ok |-> TRUE, ms |-> 0]
  ELSE
    LET e == DigitsEnd(s, 1)
        u == UnitEnd(s, e)
        unit == SubSeq(s, e, u - 1)
        rest == DurationGroups(From(s, u))
    IN  IF e = 1 \/ unit = <<>> \/ UnitMs(unit) = 0 \/ ~rest.ok
        THEN [ok |-> FALSE, ms |-> 0]
        ELSE [ok |-> TRUE, ms |-> DigitsVal(SubSeq(s, 1, e - 1)) * UnitMs(unit) + rest.ms]

\* [ok, secs]: secs is int(t.Seconds()), truncated toward zero
ParseDuration(arg) ==
  LET signed == arg # <<>> /\ Head(arg) \in {"-", "+"}
      neg == signed /\ Head(arg) = "-"
      s == IF signed THEN Tail(arg) ELSE arg
      g == DurationGroups(s)
  IN  IF s = <<"0">> THEN [ok |-> TRUE, secs |-> 0]
      ELSE IF s = <<>> \/ ~g.ok THEN [ok |-> FALSE, secs |-> 0]
      ELSE [ok |-> TRUE, secs |-> IF neg THEN 0 - (g.ms \div 1000) ELSE g.ms \div 1000]

\* The regular expression of parseRecord (line 179):
\*     ^(\S+)\s+(?:([0-9]+)\s+)?(\S+)\s+(\S+)\s+(.*)$
\* Every \S+ and \s+ is greedy and is followed by a character of the other
\* class, so each takes its whole run; the optional TTL group is tried
\* first and given up when the rest of the line does not match after it.
NextSpace(s, i) ==
  LET S == {j \in i..Len(s) : IsSpace(s[j])} IN IF S = {} THEN Len(s) + 1 ELSE Min(S)

NextNonSpace(s, i) ==
  LET S == {j \in i..Len(s) : ~IsSpace(s[j])} IN IF S = {} THEN Len(s) + 1 ELSE Min(S)

AllDigits(s) == s # <<>> /\ \A i \in 1..Len(s) : IsDigit(s[i])

\* the tail of the expression, class type data, matched at position p
RexTail(s, p) ==
  LET e1 == NextSpace(s, p)
      p2 == NextNonSpace(s, e1)
      e2 == NextSpace(s, p2)
      p3 == NextNonSpace(s, e2)
  IN  IF p > Len(s) \/ e1 = p \/ e1 > Len(s) \/ p2 > Len(s) \/ e2 > Len(s)
      THEN [ok |-> FALSE, class |-> <<>>, type |-> <<>>, data |-> <<>>]
      ELSE [ok |-> TRUE, class |-> SubSeq(s, p, e1 - 1),
            type |-> SubSeq(s, p2, e2 - 1), data |-> From(s, p3)]

\* rex.FindStringSubmatch(line): ok = FALSE is the nil slice of no match,
\* otherwise m[1..5] are the five groups (an unmatched group is "")
FindStringSubmatch(line) ==
  LET nil == [ok |-> FALSE, m |-> <<>>]
      e1 == NextSpace(line, 1)
      p2 == NextNonSpace(line, e1)
      e2 == NextSpace(line, p2)
      tok2 == SubSeq(line, p2, e2 - 1)
      withTTL == RexTail(line, NextNonSpace(line, e2))
      without == RexTail(line, p2)
  IN  IF line = <<>> \/ e1 = 1 \/ e1 > Len(line) \/ p2 > Len(line) THEN nil
      ELSE IF AllDigits(tok2) /\ e2 <= Len(line) /\ withTTL.ok
      THEN [ok |-> TRUE,
            m |-> <<SubSeq(line, 1, e1 - 1), tok2, withTTL.class, withTTL.type, withTTL.data>>]
      ELSE IF without.ok
      THEN [ok |-> TRUE,
            m |-> <<SubSeq(line, 1, e1 - 1), <<>>, without.class, without.type, without.data>>]
      ELSE nil


(***************************************************************************)
(* The lines a zone file of the model is made of.                          *)
(***************************************************************************)
\* an origin with its trailing dot
L_OriginE == <<"$", "O", "R", "I", "G", "I", "N", " ", "e", ".">>

\* an origin without the trailing dot
L_OriginBare == <<"$", "O", "R", "I", "G", "I", "N", " ", "e">>

\* the root zone
L_OriginRoot == <<"$", "O", "R", "I", "G", "I", "N", " ", ".">>

\* 3600 s
L_TTLHour == <<"$", "T", "T", "L", " ", "1", "h">>

\* a compound duration, 90 s
L_TTLCompound == <<"$", "T", "T", "L", " ", "1", "m", "3", "0", "s">>

\* ParseDuration takes a sign: -3600 s
L_TTLNegative == <<"$", "T", "T", "L", " ", "-", "1", "h">>

\* no unit: ParseDuration fails
L_TTLNoUnit == <<"$", "T", "T", "L", " ", "3", "6", "0", "0">>

\* no argument at all
L_TTLNoArg == <<"$", "T", "T", "L">>

\* a directive the switch does not know
L_Include == <<"$", "I", "N", "C", "L", "U", "D", "E", " ", "x">>

\* the apex, with a TTL
L_RecSOA == <<"@", " ", "3", "0", "0", " ", "I", "N", " ", "S", "O", "A", " ", "n", ".">>

\* a relative name, no TTL
L_RecA == <<"w", " ", "I", "N", " ", "A", " ", "1">>

\* an absolute name, TTL 0
L_RecNS == <<"b", ".", " ", "0", " ", "I", "N", " ", "N", "S", " ", "n", ".">>

\* a name with a leading dot
L_RecMX == <<".", "m", " ", "6", "0", " ", "I", "N", " ", "M", "X", " ", "5">>

\* TXT data without the leading quote, a quote inside
L_RecTXT == <<"t", " ", "I", "N", " ", "T", "X", "T", " ", "x", "\"", "y">>

\* TXT data already quoted
L_RecTXTQuoted == <<"t", " ", "7", " ", "I", "N", " ", "T", "X", "T", " ", "\"", "q", "\"">>

\* TXT with empty data
L_RecTXTEmpty == <<"t", " ", "I", "N", " ", "T", "X", "T", " ">>

\* a TTL of six digits and a type of six letters
L_RecWide == <<"k", " ", "1", "7", "2", "8", "0", "0", " ", "I", "N", " ", "D", "N", "S", "K", "E", "Y", " ", "x">>

\* four tokens, the second numeric
L_RecFour == <<"w", " ", "3", "0", "0", " ", "I", "N", " ", "A">>

\* a TTL past the range of int64
L_RecHugeTTL == <<"w", " ", "9", "9", "9", "9", "9", "9", "9", "9", "9", "9", "9", "9", "9", "9", "9", "9", "9", "9", "9", "9", " ", "I", "N", " ", "A", " ", "1">>

\* fewer than four tokens
L_ShortLine == <<"w", " ", "I", "N">>

\* a blank line
L_EmptyLine == <<>>

Lines ==
  { L_OriginE,
    L_OriginBare,
    L_OriginRoot,
    L_TTLHour,
    L_TTLCompound,
    L_TTLNegative,
    L_TTLNoUnit,
    L_TTLNoArg,
    L_Include,
    L_RecSOA,
    L_RecA,
    L_RecNS,
    L_RecMX,
    L_RecTXT,
    L_RecTXTQuoted,
    L_RecTXTEmpty,
    L_RecWide,
    L_RecFour,
    L_RecHugeTTL,
    L_ShortLine,
    L_EmptyLine }

(***************************************************************************)
(* parseRecord (lines 178-218).                                            *)
(***************************************************************************)
NoRecord == [Name |-> <<>>, TTL |-> 0, Class |-> <<>>, Type |-> <<>>, Data |-> <<>>]

TXT == <<"T", "X", "T">>

\* lines 200-207: "@" stands for the empty name; a name without a trailing
\* dot is joined to the origin and loses every leading dot
ResolveName(name, defaultZone) ==
  LET n == IF name = <<"@">> THEN <<>> ELSE name IN
  IF HasDotSuffix(n) THEN n ELSE TrimLeftDots(JoinDot(n, defaultZone))

\* ResolveTTL without the substitution of the default for a TTL of 0
ResolveTTLKeepsZero(ttl, defaultTTL) == ttl

\* lines 209-211
ResolveTTL(ttl, defaultTTL) == IF ttl = 0 THEN defaultTTL ELSE ttl

\* strconv.Quote, the %q of line 214: a quote and a backslash get a
\* backslash, a tab becomes \t, every other character of the model is
\* printable and stays
RECURSIVE Escape(_)
Escape(s) ==
  IF s = <<>> THEN <<>>
  ELSE (CASE Head(s) = "\"" -> <<"\\", "\"">>
          [] Head(s) = "\\" -> <<"\\", "\\">>
          [] Head(s) = "\t" -> <<"\\", "t">>
          [] OTHER -> <<Head(s)>>) \o Escape(Tail(s))

Quote(s) == <<"\"">> \o Escape(s) \o <<"\"">>

\* res = "ok": rec is the record; "err": the error return of line 188;
\* "panic": an index out of range, at matches[2] when the expression did not
\* match (matches is nil) or at rec.Data[0] when the data is empty
parseRecord(line, defaultZone, defaultTTL) ==
  LET fm == FindStringSubmatch(line)
      m == fm.m
      parsed == IF m[2] # <<>> THEN ParseInt(m[2]) ELSE [ok |-> TRUE, val |-> defaultTTL]
  IN  IF ~fm.ok THEN [res |-> "panic", rec |-> NoRecord]
      ELSE IF ~parsed.ok THEN [res |-> "err", rec |-> NoRecord]
      ELSE IF m[4] = TXT /\ m[5] = <<>> THEN [res |-> "panic", rec |-> NoRecord]
      ELSE [res |-> "ok",
            rec |-> [Name |-> ResolveName(m[1], defaultZone),
                     TTL |-> ResolveTTL(parsed.val, defaultTTL),
                     Class |-> m[3],
                     Type |-> m[4],
                     Data |-> IF m[4] = TXT /\ m[5][1] # "\"" THEN Quote(m[5]) ELSE m[5]]]

(***************************************************************************)
(* The sort priority table (lines 26-30 and init, lines 45-56).            *)
(***************************************************************************)
SOA == <<"S", "O", "A">>
NS == <<"N", "S">>
MX == <<"M", "X">>
TypeA == <<"A">>

\* the map literal of lines 26-30
BuiltinSorting == (SOA :> 0) @@ (NS :> 10) @@ (MX :> 20)

\* the values of the flag --sort the model draws, each already split at ","
\* and "=": the default "SOA=0,NS=10,MX=20", and "A=5"
SortFlags ==
  { << <<SOA, <<"0">>>>, <<NS, <<"1", "0">>>>, <<MX, <<"2", "0">>>> >>,
    << <<TypeA, <<"5">>>> >> }

\* the loop of init: sorting[parts[0]] = s, a later entry over an earlier one
RECURSIVE Overlay(_, _)
Overlay(table, flag) ==
  IF flag = <<>> THEN table
  ELSE Overlay((Head(flag)[1] :> ParseInt(Head(flag)[2]).val) @@ table, Tail(flag))

\* lines 100-108
Score(table, type) == IF type \in DOMAIN table THEN table[type] ELSE DefaultScore

\* Less without the comparison of names: equal scores never order two records
LessWithoutNames(table, a, b) == Score(table, a.Type) < Score(table, b.Type)

\* records.Less (lines 99-117) on two records
Less(table, a, b) ==
  IF Score(table, a.Type) # Score(table, b.Type)
  THEN Score(table, a.Type) < Score(table, b.Type)
  ELSE StrLess(a.Name, b.Name)

\* sort.Sort (line 155): on at most 12 elements the library runs an insertion
\* sort, each element moved down while it is Less than the one before it
RECURSIVE InsertSorted(_, _, _)
InsertSorted(table, s, x) ==
  IF s = <<>> \/ ~Less(table, x, s[Len(s)]) THEN Append(s, x)
  ELSE Append(InsertSorted(table, SubSeq(s, 1, Len(s) - 1), x), s[Len(s)])

RECURSIVE Sort(_, _)
Sort(table, s) ==
  IF s = <<>> THEN <<>>
  ELSE InsertSorted(table, Sort(table, SubSeq(s, 1, Len(s) - 1)), s[Len(s)])

(***************************************************************************)
(* Rendering (lines 157-173).                                              *)
(***************************************************************************)
Max(S) == CHOOSE x \in S : \A y \in S : x >= y

\* lines 157-162
MaxNameLen(recs) == Max({0} \cup {Len(recs[i].Name) : i \in 1..Len(recs)})

\* RenderLine with the name right-aligned ("%<maxLen>s" for "%-<maxLen>s")
RenderLineNameRight(r, maxLen) ==
  PadLeft(r.Name, maxLen) \o <<" ">> \o PadLeft(Itoa(r.TTL), FieldWidth) \o <<" ">>
    \o r.Class \o <<" ">> \o PadRight(r.Type, FieldWidth) \o <<" ">> \o r.Data

\* one Fprintf of "%-<maxLen>s %5d %s %-5s %s\n"; the newline ends the line
\* and is not kept
RenderLine(r, maxLen) ==
  PadRight(r.Name, maxLen) \o <<" ">> \o PadLeft(Itoa(r.TTL), FieldWidth) \o <<" ">>
    \o r.Class \o <<" ">> \o PadRight(r.Type, FieldWidth) \o <<" ">> \o r.Data

Render(recs) == [i \in 1..Len(recs) |-> RenderLine(recs[i], MaxNameLen(recs))]

(***************************************************************************)
(* formatZone (lines 119-176).  st is the state of the scan loop:          *)
(* zone and ttl are the locals of lines 121-122, rr the records collected, *)
(* status is "scan" inside the loop, "error" after "return nil, err" and   *)
(* "panic" after a run-time panic (an index out of range).                 *)
(***************************************************************************)
KwOrigin == <<"$", "O", "R", "I", "G", "I", "N">>
KwTTL == <<"$", "T", "T", "L">>

\* strings.SplitN(line, " ", 2): the place of the first space, 0 if none
FirstSpace(line) ==
  LET S == {j \in 1..Len(line) : line[j] = " "} IN IF S = {} THEN 0 ELSE Min(S)

\* directive with a bad $TTL argument logged and skipped like an unknown keyword
directiveSkippingBadTTL(st, line) ==
  LET sp == FirstSpace(line)
      keyword == IF sp = 0 THEN line ELSE SubSeq(line, 1, sp - 1)
      arg == From(line, sp + 1)
      t == ParseDuration(arg)
  IN  CASE keyword = KwOrigin ->
             IF sp = 0 THEN [st EXCEPT !.status = "panic"]
             ELSE [st EXCEPT !.zone = arg]
        [] keyword = KwTTL ->
             IF sp = 0 THEN [st EXCEPT !.status = "panic"]
             ELSE IF ~t.ok THEN st
             ELSE [st EXCEPT !.ttl = t.secs]
        [] OTHER -> st

\* directive with the origin given its trailing dot when it has none
directiveNormalizingOrigin(st, line) ==
  LET sp == FirstSpace(line)
      keyword == IF sp = 0 THEN line ELSE SubSeq(line, 1, sp - 1)
      arg == From(line, sp + 1)
      t == ParseDuration(arg)
  IN  CASE keyword = KwOrigin ->
             IF sp = 0 THEN [st EXCEPT !.status = "panic"]
             ELSE [st EXCEPT !.zone = IF HasDotSuffix(arg) THEN arg ELSE arg \o <<".">>]
        [] keyword = KwTTL ->
             IF sp = 0 THEN [st EXCEPT !.status = "panic"]
             ELSE IF ~t.ok THEN [st EXCEPT !.status = "error"]
             ELSE [st EXCEPT !.ttl = t.secs]
        [] OTHER -> st

\* lines 130-144: parts[1] is an index out of range when the line holds no space
directive(st, line) ==
  LET sp == FirstSpace(line)
      keyword == IF sp = 0 THEN line ELSE SubSeq(line, 1, sp - 1)
      arg == From(line, sp + 1)
      t == ParseDuration(arg)
  IN  CASE keyword = KwOrigin ->
             IF sp = 0 THEN [st EXCEPT !.status = "panic"]
             ELSE [st EXCEPT !.zone = arg]
        [] keyword = KwTTL ->
             IF sp = 0 THEN [st EXCEPT !.status = "panic"]
             ELSE IF ~t.ok THEN [st EXCEPT !.status = "error"]
             ELSE [st EXCEPT !.ttl = t.secs]
        [] OTHER -> st

\* lines 147-152
recordLine(st, line) ==
  LET p == parseRecord(line, st.zone, st.ttl) IN
  CASE p.res = "panic" -> [st EXCEPT !.status = "panic"]
    [] p.res = "err" -> st
    [] OTHER -> [st EXCEPT !.rr = Append(st.rr, p.rec)]

\* one turn of the loop of line 128; scanner.Text()[0] of a blank line is an
\* index out of range
scanLine(st, line) ==
  IF line = <<>> THEN [st EXCEPT !.status = "panic"]
  ELSE IF line[1] = "$" THEN directive(st, line)
  ELSE recordLine(st, line)

RECURSIVE scanAll(_, _)
scanAll(st, lines) ==
  IF lines = <<>> \/ st.status # "scan" THEN st
  ELSE scanAll(scanLine(st, Head(lines)), Tail(lines))

\* formatZone as a function of the table and the lines of the file
formatZone(table, lines) ==
  LET st == scanAll([zone |-> <<>>, ttl |-> 0, rr |-> <<>>, status |-> "scan"], lines) IN
  IF st.status = "scan"
  THEN [status |-> "ok", rr |-> Sort(table, st.rr), out |-> Render(Sort(table, st.rr))]
  ELSE [status |-> st.status, rr |-> st.rr, out |-> <<>>]

(***************************************************************************)
(* The state machine: one run of formatZone on one file.                   *)
(***************************************************************************)
VARIABLES
  sorting,  \* the global priority table, fixed by init
  input,    \* the lines the scanner has delivered so far
  zone,     \* the current origin
  ttl,      \* the current default TTL in seconds
  rr,       \* the records collected, sorted once rendering starts
  status,   \* "scan", then "ok" (buf, nil), "error" (nil, err) or "panic"
  out       \* the lines of the buffer returned

vars == <<sorting, input, zone, ttl, rr, status, out>>

Init ==
  /\ sorting \in {Overlay(BuiltinSorting, f) : f \in SortFlags}
  /\ input = <<>>
  /\ zone = <<>>
  /\ ttl = 0
  /\ rr = <<>>
  /\ status = "scan"
  /\ out = <<>>

loopState == [zone |-> zone, ttl |-> ttl, rr |-> rr, status |-> status]

Apply(st, line) ==
  /\ input' = Append(input, line)
  /\ zone' = st.zone
  /\ ttl' = st.ttl
  /\ rr' = st.rr
  /\ status' = st.status
  /\ UNCHANGED <<sorting, out>>

\* the scanner delivers a line that starts with "$"
ScanDirective(line) ==
  /\ status = "scan"
  /\ Len(input) < MaxLines
  /\ line # <<>> /\ line[1] = "$"
  /\ Apply(scanLine(loopState, line), line)

\* the scanner delivers any other line that is not blank
ScanRecord(line) ==
  /\ status = "scan"
  /\ Len(input) < MaxLines
  /\ line # <<>> /\ line[1] # "$"
  /\ Apply(scanLine(loopState, line), line)

\* the scanner delivers a blank line
ScanBlank ==
  /\ status = "scan"
  /\ Len(input) < MaxLines
  /\ <<>> \in Lines
  /\ Apply(scanLine(loopState, <<>>), <<>>)

\* end of file: sort in place, render, return the buffer (lines 155-175)
Finish ==
  /\ status = "scan"
  /\ rr' = Sort(sorting, rr)
  /\ out' = Render(rr')
  /\ status' = "ok"
  /\ UNCHANGED <<sorting, input, zone, ttl>>

Next ==
  \/ \E line \in Lines : ScanDirective(line)
  \/ \E line \in Lines : ScanRecord(line)
  \/ ScanBlank
  \/ Finish

Spec == Init /\ [][Next]_vars

(***************************************************************************)
(* Vocabulary of the properties: a line as the whitespace-separated fields *)
(* a reader of the zone file sees, the directive in force, the last line.  *)
(***************************************************************************)
Last(s) == s[Len(s)]

\* the whitespace-separated fields of a line
RECURSIVE Fields(_)
Fields(line) ==
  LET b == NextNonSpace(line, 1)
      e == NextSpace(line, b)
  IN  IF b > Len(line) THEN <<>>
      ELSE <<SubSeq(line, b, e - 1)>> \o Fields(From(line, e))

IsDirectiveLine(line) == line # <<>> /\ line[1] = "$"

IsRecordLine(line) == line # <<>> /\ line[1] # "$"

\* the keyword of a directive line and what follows its first space
Keyword(line) == IF FirstSpace(line) = 0 THEN line ELSE SubSeq(line, 1, FirstSpace(line) - 1)

HasArgument(line) == FirstSpace(line) # 0

Argument(line) == From(line, FirstSpace(line) + 1)

\* the argument of the most recent $ORIGIN line of a file prefix, empty if none
RECURSIVE OriginOf(_)
OriginOf(lines) ==
  IF lines = <<>> THEN <<>>
  ELSE IF Keyword(Last(lines)) = KwOrigin /\ HasArgument(Last(lines)) THEN Argument(Last(lines))
  ELSE OriginOf(SubSeq(lines, 1, Len(lines) - 1))

\* the seconds of the most recent $TTL line of a file prefix, 0 if none
RECURSIVE DefaultTTLOf(_)
DefaultTTLOf(lines) ==
  IF lines = <<>> THEN 0
  ELSE IF Keyword(Last(lines)) = KwTTL /\ HasArgument(Last(lines))
          /\ ParseDuration(Argument(Last(lines))).ok
  THEN ParseDuration(Argument(Last(lines))).secs
  ELSE DefaultTTLOf(SubSeq(lines, 1, Len(lines) - 1))

\* a step of the scan loop that read one more line
ReadsLine == status = "scan" /\ input' # input

\* a step of the scan loop that appended exactly one record
AppendsRecord == ReadsLine /\ Len(rr') = Len(rr) + 1 /\ SubSeq(rr', 1, Len(rr)) = rr

(***************************************************************************)
(* C1.  A record line of fewer than four fields adds no record and does    *)
(* not end the run: the loop goes on to the next line.                     *)
(***************************************************************************)
IsShortRecordLine(line) == IsRecordLine(line) /\ Len(Fields(line)) < 4

\* C1: reading a record line of fewer than four fields leaves the records as
\* they are and the loop running.
C1_ShortLineIsSkipped ==
  [][(ReadsLine /\ IsShortRecordLine(Last(input')))
       => (status' = "scan" /\ rr' = rr)]_vars

(***************************************************************************)
(* C2.  Formatting is idempotent: formatZone run on its own output gives   *)
(* that output again.  "The same origin and default TTL" is read both      *)
(* ways: the output alone, or the output after the two directives that     *)
(* restore the context the first run ended in; either one suffices.        *)
(***************************************************************************)
ContextLines(origin, seconds) ==
  << KwOrigin \o <<" ">> \o origin, KwTTL \o <<" ">> \o Itoa(seconds) \o <<"s">> >>

Reformats(lines) ==
  LET again == formatZone(sorting, lines) IN again.status = "ok" /\ again.out = out

\* C2: once formatZone has returned its output, formatting that output again
\* returns the same lines.
C2_FormatIsIdempotent ==
  status = "ok" => (Reformats(out) \/ Reformats(ContextLines(zone, ttl) \o out))

(***************************************************************************)
(* C3.  The output lists the records by priority (the built-in table       *)
(* overlaid with the overrides, 100 for a type it does not hold), records  *)
(* of equal priority by name in byte order: line i of the output is record *)
(* i of the sorted list, and for consecutive records a, b either           *)
(* priority(a) < priority(b), or the priorities are equal and a.Name <=    *)
(* b.Name.  With the default table that is SOA, NS, MX, then the rest;     *)
(* with the override A=5 an A record comes after SOA and before NS.        *)
(***************************************************************************)
Priority(type) == IF type \in DOMAIN sorting THEN sorting[type] ELSE 100

\* a <= b bytewise: a is a prefix of b, or a is smaller where they first differ
NameLeq(a, b) ==
  \/ Len(a) <= Len(b) /\ SubSeq(b, 1, Len(a)) = a
  \/ \E k \in 1..Len(a) :
       /\ k <= Len(b)
       /\ SubSeq(a, 1, k - 1) = SubSeq(b, 1, k - 1)
       /\ Ord(a[k]) < Ord(b[k])

InOrder(a, b) ==
  \/ Priority(a.Type) < Priority(b.Type)
  \/ Priority(a.Type) = Priority(b.Type) /\ NameLeq(a.Name, b.Name)

\* the place of a type in "SOA, NS, MX, then others"
DefaultRank(type) ==
  CASE type = SOA -> 1 [] type = NS -> 2 [] type = MX -> 3 [] OTHER -> 4

\* the place of a type in "SOA, A, NS" under the override A=5
OverrideRank(type) ==
  CASE type = SOA -> 1 [] type = TypeA -> 2 [] type = NS -> 3 [] OTHER -> 4

\* C3: the finished output is in priority order, ties in name order.
C3_OutputSortedByPriority ==
  status = "ok" =>
    /\ Len(out) = Len(rr)
    /\ \A i \in 1..Len(rr) : SubSeq(out[i], 1, Len(rr[i].Name)) = rr[i].Name
    /\ \A i \in 1..(Len(rr) - 1) : InOrder(rr[i], rr[i + 1])
    /\ sorting = BuiltinSorting =>
         \A i, j \in 1..Len(rr) : i < j => DefaultRank(rr[i].Type) <= DefaultRank(rr[j].Type)
    /\ (TypeA \in DOMAIN sorting /\ sorting[TypeA] = 5) =>
         \A i, j \in 1..Len(rr) :
           (i < j /\ {rr[i].Type, rr[j].Type} \subseteq {SOA, TypeA, NS})
             => OverrideRank(rr[i].Type) <= OverrideRank(rr[j].Type)

\* the file gave NS, A, SOA; under A=5 the output gives SOA, A, NS
C3_Witness ==
  /\ status = "ok"
  /\ TypeA \in DOMAIN sorting
  /\ input = <<L_RecNS, L_RecA, L_RecSOA>>
  /\ <<rr[1].Type, rr[2].Type, rr[3].Type>> = <<SOA, TypeA, NS>>

(***************************************************************************)
(* C4.  Name resolution: "@" resolves to the bare origin; a name without a *)
(* trailing dot resolves to <name>.<origin> with leading dots stripped; a  *)
(* name with a trailing dot is kept.  The origin is the argument of the    *)
(* most recent $ORIGIN line before the record line, empty if none.         *)
(***************************************************************************)
ExpectedName(token, origin) ==
  IF token = <<"@">> THEN origin
  ELSE IF HasDotSuffix(token) THEN token
  ELSE TrimLeftDots(token \o <<".">> \o origin)

\* C4: the Name of every record appended is the name field of its line
\* resolved against the origin in force.
C4_NameResolution ==
  [][AppendsRecord =>
       Last(rr').Name = ExpectedName(Fields(Last(input'))[1], OriginOf(input))]_vars

(***************************************************************************)
(* C5.  TTL inheritance follows line order: a record line with a non-zero  *)
(* TTL field keeps it; one without a TTL field, or with TTL 0, gets the    *)
(* seconds of the most recent $TTL line before it (0 if none); no line     *)
(* read later changes a record already collected.                          *)
(***************************************************************************)
\* The TTL field: a second field made of digits that still leaves a class
\* and a type followed by white space (the data may be empty).
HasTTLField(line) ==
  LET f == Fields(line) IN
  /\ Len(f) >= 2 /\ AllDigits(f[2])
  /\ Len(f) >= 5 \/ (Len(f) = 4 /\ IsSpace(Last(line)))

ExpectedTTL(line, lines) ==
  IF HasTTLField(line) /\ DigitsVal(Fields(line)[2]) # 0
  THEN DigitsVal(Fields(line)[2])
  ELSE DefaultTTLOf(lines)

C6_RecordsWellFormed ==
  \A i \in 1..Len(rr) :
    rr[i].TTL >= 0 /\ (rr[i].Name = <<>> \/ HasDotSuffix(rr[i].Name))

(***************************************************************************)
(* C7.  TXT quoting: TXT data that does not start with a quote comes out   *)
(* as the same data between two quotes, nothing else changed; TXT data     *)
(* that starts with a quote, and the data of any other type, is kept.      *)
(***************************************************************************)
StartsWithQuote(data) == data # <<>> /\ data[1] = "\""

SimpleWrap(type, data) ==
  IF type = TXT /\ ~StartsWithQuote(data) THEN <<"\"">> \o data \o <<"\"">> ELSE data

\* the line matches the expression and its TTL field, if any, is in range
ParsesAsRecord(line) ==
  LET fm == FindStringSubmatch(line) IN
  IsRecordLine(line) /\ fm.ok /\ (fm.m[2] = <<>> \/ ParseInt(fm.m[2]).ok)

\* C7: every line that parses as a record appends a record whose data is the
\* data field, put between two quotes when the type is TXT and the data does
\* not start with a quote.
C7_TXTSimpleWrap ==
  [][(ReadsLine /\ ParsesAsRecord(Last(input')))
       => LET m == FindStringSubmatch(Last(input')).m IN
          AppendsRecord /\ Last(rr').Data = SimpleWrap(m[4], m[5])]_vars

(***************************************************************************)
(* C8.  A $TTL line whose argument is no duration fails the whole file:    *)
(* formatZone returns an error and no output, not even for the records     *)
(* collected before, and reads no further line.  Output exists only once   *)
(* every line is read and the records are sorted.                          *)
(***************************************************************************)
IsBadTTLLine(line) ==
  Keyword(line) = KwTTL /\ HasArgument(line) /\ ~ParseDuration(Argument(line)).ok

\* C8: a $TTL line with a bad argument is the last line read and ends the run
\* in an error without output; output exists only after the sort.
C8_BadTTLIsFatal ==
  /\ \A i \in 1..Len(input) :
       (IsBadTTLLine(input[i]) \/ input[i] = L_TTLNoUnit)
         => (i = Len(input) /\ status = "error" /\ out = <<>>)
  /\ out # <<>> => (status = "ok" /\ \A i \in 1..(Len(rr) - 1) : InOrder(rr[i], rr[i + 1]))

\* a record was collected, then "$TTL 3600" came: error, and no output
C8_Witness ==
  /\ input = <<L_RecA, L_TTLNoUnit>>
  /\ Len(rr) = 1
  /\ status = "error"
  /\ out = <<>>

(***************************************************************************)
(* C9.  Column layout.  Every line of the output is                        *)
(*   name, space, TTL, space, class, space, type, space, data              *)
(* with the name padded by trailing spaces to the longest name, the TTL    *)
(* right-aligned and the type padded by trailing spaces; no records, no    *)
(* output.  As stated: the TTL and type columns are exactly 5 wide.  As    *)
(* the code has it: 5 is their least width, a longer TTL or type takes its *)
(* own width.                                                              *)
(***************************************************************************)
WidestName == Max({0} \cup {Len(rr[i].Name) : i \in 1..Len(rr)})

AtLeast(n, w) == IF n > w THEN n ELSE w

Layout(line, r, w, ttlW, typeW) ==
  LET d == Itoa(r.TTL)
      c1 == w + 1
      c2 == c1 + ttlW + 1
      c3 == c2 + Len(r.Class) + 1
      c4 == c3 + typeW + 1
  IN  /\ Len(line) = c4 + Len(r.Data)
      /\ Len(r.Name) <= w /\ Len(d) <= ttlW /\ Len(r.Type) <= typeW
      /\ SubSeq(line, 1, w) = r.Name \o Spaces(w - Len(r.Name))
      /\ line[c1] = " "
      /\ SubSeq(line, c1 + 1, c2 - 1) = Spaces(ttlW - Len(d)) \o d
      /\ line[c2] = " "
      /\ SubSeq(line, c2 + 1, c3 - 1) = r.Class
      /\ line[c3] = " "
      /\ SubSeq(line, c3 + 1, c4 - 1) = r.Type \o Spaces(typeW - Len(r.Type))
      /\ line[c4] = " "
      /\ From(line, c4 + 1) = r.Data

\* C9 as stated: TTL and type columns exactly 5 wide.
C9_ColumnsExactlyFive ==
  status = "ok" =>
    /\ Len(out) = Len(rr)
    /\ \A i \in 1..Len(rr) : Layout(out[i], rr[i], WidestName, 5, 5)

\* C9 as amended: TTL and type columns 5 wide, or as wide as a longer TTL or
\* type.
C9_ColumnsAtLeastFive ==
  status = "ok" =>
    /\ Len(out) = Len(rr)
    /\ \A i \in 1..Len(rr) :
         Layout(out[i], rr[i], WidestName,
                AtLeast(Len(Itoa(rr[i].TTL)), 5), AtLeast(Len(rr[i].Type), 5))

\* names of 2 and 4 characters, a TTL of 6 digits, a type of 6 letters
C9_Witness ==
  /\ status = "ok"
  /\ input = <<L_OriginE, L_RecWide, L_RecNS>>
  /\ out = << <<"b", ".", " ", " ", " ", " ", " ", " ", " ", "0", " ", "I", "N", " ", "N", "S", " ", " ", " ", " ", "n", ".">>,
              <<"k", ".", "e", ".", " ", "1", "7", "2",
                 "8", "0", "0", " ", "I", "N", " ", "D", "N", "S", "K", "E", "Y", " ", "x">> >>

(***************************************************************************)
(* C10.  Directive lines touch only the parse context: no "$" line adds a  *)
(* record; $ORIGIN <arg> sets the origin to <arg> as written and keeps the *)
(* default TTL; a valid $TTL <arg> sets the default TTL and keeps the      *)
(* origin; any other keyword keeps both; in each case the loop goes on.    *)
(* A record line changes neither.                                          *)
(***************************************************************************)
\* C10: a directive line changes at most its own context field and no
\* record; a record line changes no context field.
C10_DirectivesOnlyTouchContext ==
  [][ReadsLine =>
       LET l == Last(input') IN
       /\ IsDirectiveLine(l) => rr' = rr
       /\ (Keyword(l) = KwOrigin /\ HasArgument(l))
            => (zone' = Argument(l) /\ ttl' = ttl /\ status' = "scan")
       /\ (Keyword(l) = KwTTL /\ HasArgument(l) /\ ParseDuration(Argument(l)).ok)
            => (ttl' = ParseDuration(Argument(l)).secs /\ zone' = zone /\ status' = "scan")
       /\ l = L_TTLHour => ttl' = 3600
       /\ l = L_TTLCompound => ttl' = 90
       /\ (IsDirectiveLine(l) /\ Keyword(l) \notin {KwOrigin, KwTTL})
            => (zone' = zone /\ ttl' = ttl /\ status' = "scan")
       /\ IsRecordLine(l) => (zone' = zone /\ ttl' = ttl)]_vars

\* an origin kept as written, a default TTL, an unknown directive: no record
C10_Witness ==
  /\ status = "scan"
  /\ input = <<L_OriginBare, L_TTLCompound, L_Include>>
  /\ zone = <<"e">>
  /\ ttl = 90
  /\ rr = <<>>

=============================================================================
